---------------------------- MODULE Spec2Model ----------------------------
(***************************************************************************)
(* The retrying HTTP client of package retry (src/retry.go).               *)
(*                                                                         *)
(* One call of Client.DoWithRetryFunc is a small sequential process:       *)
(*   start --BufferBody--> retry --RetryReset--> op --Op--> next           *)
(*   next --ConsultBackOff--> wait --Wait--> op ...                        *)
(* and it ends in "done" (the call returned, ret holds the two results) or *)
(* in "panic" (a method was called on the nil Logger of a Client built by  *)
(* NewWithClient).  Every variable but logger is a function of the call:   *)
(* the locals of DoWithRetryFunc belong to one invocation.                 *)
(*                                                                         *)
(* backoff.Retry, backoff.WithMaxRetries and backoff.ExponentialBackOff    *)
(* are the github.com/cenkalti/backoff collaborators that retry.go calls;  *)
(* they are modelled as retry.go configures and uses them.  Durations are  *)
(* in seconds.                                                             *)
(***************************************************************************)
EXTENDS Integers, Sequences, FiniteSets, TLC

VARIABLES
    logger,     \* c.logger is not nil (shared by every call on the Client)
    args,       \* per call: the arguments r, b, f as the caller passed them
    pc,         \* per call: where the call is
    r,          \* per call: the *http.Request, whose Body field Do replaces
    orig,       \* per call: the caller's original body stream
    body,       \* per call: local body []byte
    copyBody,   \* per call: local copyBody bool
    b,          \* per call: the BackOff policy's state
    response,   \* per call: the sync.Map, i.e. what is stored under responseKey
    last,       \* per call: what the latest c.c.Do(r) returned
    retry,      \* per call: what f(rs) answered on the latest response
    opErr,      \* per call: the error the latest op() returned
    attempts,   \* per call: number of c.c.Do(r) calls made
    allRej,     \* per call: every attempt so far got a response that f rejected
    seen,       \* per call: the request as the transport received it, per attempt
    drained,    \* per call: an earlier attempt's reader was read to its end
    delays,     \* per call: what b.NextBackOff() returned, per consultation
    slept,      \* per call: the timer waits performed between attempts
    ret,        \* per call: the (response, error) pair returned
    cancelled   \* per call: the request's context is done (cancelled or past its deadline)

vars == <<logger, args, pc, r, orig, body, copyBody, b, response, last, retry,
          opErr, attempts, allRej, seen, drained, delays, slept, ret, cancelled>>

-----------------------------------------------------------------------------
(* Bounds of the model *)

\* longest request body, in bytes
MaxBodyLen == 2
\* largest retry budget of a caller-supplied WithMaxRetries policy
MaxBudget == 2

\* the byte values a body is made of
Bytes == {1, 2}

Bodies == UNION {[1..n -> Bytes] : n \in 0..MaxBodyLen}

-----------------------------------------------------------------------------
(* Program constants *)

DefaultMaxRetry == 10

\* backoff.Stop: the duration NextBackOff returns to end the retries
Stop == 0 - 1

responseKey == "response"

\* status codes the transport may answer with; 0 is a response without one
StatusCodes == {0, 200, 404, 500, 501, 503, 600}

-----------------------------------------------------------------------------
(* Values *)

\* the request urls of the calls, by call: distinct requests of distinct calls
Urls == <<"u1", "u2">>

NoResponse == [StatusCode |-> 0 - 1, attempt |-> 0, url |-> ""]

\* the response of attempt n to the request of that url (rs.Request)
Response(status, n, url) == [StatusCode |-> status, attempt |-> n, url |-> url]

NoError == [kind |-> "nil", cause |-> ""]

\* backoff.Permanent(err)
Permanent(cause) == [kind |-> "permanent", cause |-> cause]

NoBody == [kind |-> "nil", data |-> <<>>, pos |-> 0, closed |-> FALSE]

\* the caller's stream; r.Body of kind "orig" refers to orig[c]
OrigBody == [kind |-> "orig", data |-> <<>>, pos |-> 0, closed |-> FALSE]

\* ioutil.NopCloser(bytes.NewBuffer(body))
NewBuffer(bytes) == [kind |-> "buf", data |-> bytes, pos |-> 0, closed |-> FALSE]

NoStream == [present |-> FALSE, data |-> <<>>, err |-> FALSE, pos |-> 0,
             closed |-> FALSE, reads |-> 0]

Stream(bytes, fails) == [present |-> TRUE, data |-> bytes, err |-> fails, pos |-> 0,
                         closed |-> FALSE, reads |-> 0]

Rest(data, pos) == SubSeq(data, pos + 1, Len(data))

-----------------------------------------------------------------------------
(* The predicate *)

\* DefaultRetryFunc with the 501 exception forgotten
DefaultRetryFuncAll5xx(rs) ==
    rs.StatusCode = 0 \/ rs.StatusCode >= 500

DefaultRetryFunc(rs) ==
    rs.StatusCode = 0 \/ (rs.StatusCode >= 500 /\ rs.StatusCode # 501)

\* the caller's predicate of the usage example: retry on 500 alone
Only500(rs) == rs.StatusCode = 500

Funcs == {"DefaultRetryFunc", "Only500"}

\* f(rs)
Apply(f, rs) ==
    IF f = "DefaultRetryFunc" THEN DefaultRetryFunc(rs) ELSE Only500(rs)

-----------------------------------------------------------------------------
(* The backoff policy *)

\* backoff.WithMaxRetries(&backoff.ExponentialBackOff{...}, max)
WithMaxRetries(initial, factor, multiplier, maxInterval, max) ==
    [kind |-> "maxRetries", maxTries |-> max, numTries |-> 0,
     InitialInterval |-> initial, RandomizationFactor |-> factor,
     Multiplier |-> multiplier, MaxInterval |-> maxInterval,
     currentInterval |-> initial]

\* backoff.StopBackOff: never retries
StopBackOff ==
    [kind |-> "stop", maxTries |-> 0, numTries |-> 0,
     InitialInterval |-> 0, RandomizationFactor |-> 0,
     Multiplier |-> 1, MaxInterval |-> 0, currentInterval |-> 0]

\* b.Reset()
Reset(p) ==
    IF p.kind = "stop" THEN p
    ELSE [p EXCEPT !.numTries = 0, !.currentInterval = p.InitialInterval]

\* ExponentialBackOff.incrementCurrentInterval:
\* currentInterval >= MaxInterval / Multiplier ? MaxInterval : currentInterval * Multiplier
incrementCurrentInterval(p) ==
    IF p.currentInterval * p.Multiplier >= p.MaxInterval
    THEN p.MaxInterval
    ELSE p.currentInterval * p.Multiplier

\* the durations getRandomValueFromInterval may draw around currentInterval:
\* RandomizationFactor is in percent, 0 leaves the interval itself
RandomValues(p) ==
    LET delta == (p.RandomizationFactor * p.currentInterval) \div 100
    IN  (p.currentInterval - delta) .. (p.currentInterval + delta)

\* the retry count compared with > instead of >=: one retry too many
ExhaustedLate(p) ==
    p.kind = "stop" \/ (p.maxTries > 0 /\ p.numTries > p.maxTries)

\* the policy has no retry left: NextBackOff returns Stop
Exhausted(p) ==
    p.kind = "stop" \/ (p.maxTries > 0 /\ p.numTries >= p.maxTries)

\* b.NextBackOff(): the (duration, next policy state) pairs it may yield.
\* MaxElapsedTime is left 0 by DefaultBackOff, so no elapsed-time cutoff applies.
NextBackOff(p) ==
    IF Exhausted(p)
    THEN {[next |-> Stop, b |-> p]}
    ELSE {[next |-> d,
           b |-> [p EXCEPT !.numTries = IF p.maxTries > 0 THEN @ + 1 ELSE @,
                           !.currentInterval = incrementCurrentInterval(p)]]
          : d \in RandomValues(p)}

\* DefaultBackOff bounded to one retry less than DefaultMaxRetry
DefaultBackOffShort ==
    Reset(WithMaxRetries(1, 0, 2, 60, DefaultMaxRetry - 1))

\* DefaultBackOff with MaxInterval set to 120 seconds
DefaultBackOffWideCap ==
    Reset(WithMaxRetries(1, 0, 2, 120, DefaultMaxRetry))

\* DefaultBackOff(): InitialInterval 1s, RandomizationFactor 0, Multiplier 2,
\* MaxInterval 60s, wrapped in WithMaxRetries(DefaultMaxRetry), then Reset
DefaultBackOff ==
    Reset(WithMaxRetries(1, 0, 2, 60, DefaultMaxRetry))

\* backoff.Retry consulting the policy only after a rejected response: a
\* transport error is retried after the current interval without using a retry
RetryNextFreeTransport(p, err) ==
    IF err.cause = "transport"
    THEN {[next |-> p.currentInterval, b |-> p]}
    ELSE NextBackOff(p)

\* backoff.Retry after op() returned err: whatever the error is (op never
\* returns a backoff.PermanentError), the policy is consulted once
RetryNext(p, err) == NextBackOff(p)

RECURSIVE Used(_, _)
\* a policy on which NextBackOff was already called n times
Used(p, n) ==
    IF n = 0 THEN p
    ELSE Used((CHOOSE x \in NextBackOff(p) : TRUE).b, n - 1)

\* the policies a caller passes: the default, StopBackOff, and fresh or used
\* WithMaxRetries policies of a small budget
Policies ==
    {DefaultBackOff, StopBackOff}
    \cup {Used(WithMaxRetries(1, 0, 2, 60, n), u) : n \in 1..MaxBudget, u \in 0..MaxBudget}

\* the retries a policy grants after Reset
Budget(p) == IF p.kind = "stop" THEN 0 ELSE p.maxTries

-----------------------------------------------------------------------------
(* The steps of DoWithRetryFunc *)

\* ioutil.ReadAll(r.Body) on the caller's stream: the bytes and the error.
\* ReadAll reports a clean end of stream as a nil error.
ReadAll(s) ==
    IF s.err THEN [data |-> <<>>, err |-> "err"]
    ELSE [data |-> Rest(s.data, s.pos), err |-> "nil"]

\* the read-error test with the comparison to io.EOF inverted
GiveUpOnEOFOnly(err) == err # "nil" /\ err = "EOF"

\* err != nil && err != io.EOF
GiveUp(err) == err # "nil" /\ err # "EOF"

\* the body rebuild with the copyBody test dropped
RebuildAlways(copy, req, bytes) == [req EXCEPT !.Body = NewBuffer(bytes)]

\* the body rebuild done on the first attempt only
RebuildOnce(copy, req, bytes) ==
    IF copy /\ req.Body.kind = "orig" THEN [req EXCEPT !.Body = NewBuffer(bytes)] ELSE req

\* if copyBody { r.Body = ioutil.NopCloser(bytes.NewBuffer(body)) }
Rebuild(copy, req, bytes) ==
    IF copy THEN [req EXCEPT !.Body = NewBuffer(bytes)] ELSE req

\* what the transport can read from the request's body when it is handed r
BodyContent(req, s) ==
    IF req.Body.kind = "nil" THEN <<>>
    ELSE IF req.Body.kind = "orig" THEN Rest(s.data, s.pos)
    ELSE Rest(req.Body.data, req.Body.pos)

\* the request as the transport sees it
Sent(req, s) ==
    [method |-> req.method, url |-> req.url,
     hasBody |-> req.Body.kind # "nil", body |-> BodyContent(req, s)]

\* r after the transport read n bytes of its body and closed it
Consumed(req, n) ==
    IF req.Body.kind = "buf"
    THEN [req EXCEPT !.Body.pos = @ + n, !.Body.closed = TRUE]
    ELSE req

\* the caller's stream after the transport read n bytes of a request that
\* still carries it
ConsumedStream(req, s, n) ==
    IF req.Body.kind = "orig" THEN [s EXCEPT !.pos = @ + n, !.closed = TRUE] ELSE s

\* what c.c.Do(r) may return on attempt n: an error, or a response to r
Outcomes(req, n) ==
    {[kind |-> "err", rs |-> NoResponse]}
    \cup {[kind |-> "rs", rs |-> Response(s, n, req.url)] : s \in StatusCodes}

NoOutcome == [kind |-> "none", rs |-> NoResponse]

\* response.Store(responseKey, rs) done only for a response that is returned
StoreIfFinal(slot, rs, again) == IF again THEN slot ELSE rs

\* response.Store(responseKey, rs) done only for a response that needs a retry
StoreIfRetry(slot, rs, again) == IF again THEN rs ELSE slot

\* response.LoadOrStore(responseKey, rs): the first response stored is kept
StoreFirst(slot, rs, again) == IF slot = NoResponse THEN rs ELSE slot

\* response.Store(responseKey, rs): the slot after the attempt
Store(slot, rs, again) == rs

\* op() returning errors.New("need retry") for a transport error too
OpErrorOpaque(o, again) ==
    IF o.kind = "err" \/ again THEN [kind |-> "error", cause |-> "need retry"]
    ELSE NoError

\* op() reporting a retry whatever f answered
OpRetryAlways(o, again) == [kind |-> "error", cause |-> "need retry"]

\* the error op() returns: the transport's, "need retry", or nil
OpError(o, again) ==
    IF o.kind = "err" THEN [kind |-> "error", cause |-> "transport"]
    ELSE IF again THEN [kind |-> "error", cause |-> "need retry"]
    ELSE NoError

\* the end of DoWithRetryFunc with the stored response handed back beside the error
FinishLeak(retryErr, slot) ==
    IF retryErr # NoError
    THEN [rs |-> slot, err |-> [kind |-> "retried", cause |-> retryErr.cause]]
    ELSE IF slot = NoResponse
    THEN [rs |-> NoResponse, err |-> [kind |-> "bug", cause |-> ""]]
    ELSE [rs |-> slot, err |-> NoError]

\* the end of DoWithRetryFunc with the last recorded attempt treated as final
FinishLastAsFinal(retryErr, slot) ==
    IF slot = NoResponse
    THEN [rs |-> NoResponse, err |-> [kind |-> "retried", cause |-> retryErr.cause]]
    ELSE [rs |-> slot, err |-> NoError]

\* lines 116-123: what DoWithRetryFunc returns once backoff.Retry returned retryErr
Finish(retryErr, slot) ==
    IF retryErr # NoError
    THEN [rs |-> NoResponse, err |-> [kind |-> "retried", cause |-> retryErr.cause]]
    ELSE IF slot = NoResponse
    THEN [rs |-> NoResponse, err |-> [kind |-> "bug", cause |-> ""]]
    ELSE [rs |-> slot, err |-> NoError]

NoReturn == [rs |-> NoResponse, err |-> NoError]

Calls == DOMAIN pc

\* the requests a caller passes, each with the stream its Body refers to
Requests(u) ==
    {[r |-> [method |-> "GET", url |-> u, Body |-> NoBody], orig |-> NoStream]}
    \cup {[r |-> [method |-> "POST", url |-> u, Body |-> OrigBody],
           orig |-> Stream(bytes, fails)] : bytes \in Bodies, fails \in BOOLEAN}

Args(u) == {[r |-> q.r, orig |-> q.orig, b |-> p, f |-> f] :
               q \in Requests(u), p \in Policies, f \in Funcs}

\* the arguments of the calls that run concurrently on one Client: a request
\* without a body or with a one-byte body, its own one-retry policy, the
\* default predicate
ArgsConc(u) == {[r |-> q.r, orig |-> q.orig, b |-> p, f |-> "DefaultRetryFunc"] :
                   q \in {x \in Requests(u) : ~x.orig.err /\ x.orig.data \in {<<>>, <<1>>, <<2>>}
                                                /\ (x.orig.present => x.orig.data # <<>>)},
                   p \in {WithMaxRetries(1, 0, 2, 60, 1)}}

\* response.Load(responseKey) on a map shared by the calls of the Client: the
\* slot may hold what another call stored
LoadShared(c, slot) ==
    IF \E d \in Calls \ {c} : response[d] # NoResponse
    THEN response[CHOOSE d \in Calls \ {c} : response[d] # NoResponse]
    ELSE slot

\* response.Load(responseKey): the map is the local of this call, declared at
\* line 86, so the key finds what this call stored
Load(c, slot) == slot

\* New() sets a logger, NewWithClient(c) leaves it nil
InitCalls(ids, A) ==
    /\ logger \in BOOLEAN
    /\ args \in [ids -> A]
    /\ \A c \in ids : args[c].r.url = Urls[c]
    /\ pc = [c \in ids |-> "start"]
    /\ r = [c \in ids |-> args[c].r]
    /\ orig = [c \in ids |-> args[c].orig]
    /\ body = [c \in ids |-> <<>>]
    /\ copyBody = [c \in ids |-> FALSE]
    /\ b = [c \in ids |-> args[c].b]
    /\ response = [c \in ids |-> NoResponse]
    /\ last = [c \in ids |-> NoOutcome]
    /\ retry = [c \in ids |-> "none"]
    /\ opErr = [c \in ids |-> NoError]
    /\ attempts = [c \in ids |-> 0]
    /\ allRej = [c \in ids |-> TRUE]
    /\ seen = [c \in ids |-> <<>>]
    /\ drained = [c \in ids |-> FALSE]
    /\ delays = [c \in ids |-> <<>>]
    /\ slept = [c \in ids |-> <<>>]
    /\ ret = [c \in ids |-> NoReturn]
    /\ cancelled = [c \in ids |-> FALSE]

Init == InitCalls({1}, Args(Urls[1]))

\* two calls running concurrently on the same Client
InitConc == InitCalls({1, 2}, ArgsConc(Urls[1]) \cup ArgsConc(Urls[2]))

\* WithLogger(logger), called before the client is used
WithLogger ==
    /\ ~logger
    /\ \A c \in Calls : pc[c] = "start"
    /\ logger' = TRUE
    /\ UNCHANGED <<args, pc, r, orig, body, copyBody, b, response, last, retry,
                   opErr, attempts, allRej, seen, drained, delays, slept, ret,
                   cancelled>>

\* lines 86-98: buffer the request body, or give up on a read error
BufferBody(c) ==
    /\ pc[c] = "start"
    /\ IF r[c].Body.kind = "nil"
       THEN /\ pc' = [pc EXCEPT ![c] = "retry"]
            /\ UNCHANGED <<orig, body, copyBody, ret>>
       ELSE LET got == ReadAll(orig[c])
            IN  IF GiveUp(got.err)
                THEN /\ orig' = [orig EXCEPT ![c].reads = @ + 1]
                     /\ body' = [body EXCEPT ![c] = got.data]
                     /\ UNCHANGED copyBody
                     /\ IF logger
                        THEN /\ ret' = [ret EXCEPT ![c] =
                                          [rs |-> NoResponse, err |-> Permanent("read")]]
                             /\ pc' = [pc EXCEPT ![c] = "done"]
                        ELSE /\ pc' = [pc EXCEPT ![c] = "panic"]
                             /\ UNCHANGED ret
                ELSE /\ orig' = [orig EXCEPT ![c].reads = @ + 1,
                                             ![c].pos = Len(orig[c].data),
                                             ![c].closed = TRUE]
                     /\ body' = [body EXCEPT ![c] = got.data]
                     /\ copyBody' = [copyBody EXCEPT ![c] = TRUE]
                     /\ pc' = [pc EXCEPT ![c] = "retry"]
                     /\ UNCHANGED ret
    /\ UNCHANGED <<logger, args, r, b, response, last, retry, opErr, attempts,
                   allRej, seen, drained, delays, slept, cancelled>>

\* line 116, entering backoff.Retry: the policy is reset before the first attempt
RetryReset(c) ==
    /\ pc[c] = "retry"
    /\ b' = [b EXCEPT ![c] = Reset(b[c])]
    /\ pc' = [pc EXCEPT ![c] = "op"]
    /\ UNCHANGED <<logger, args, r, orig, body, copyBody, response, last, retry,
                   opErr, attempts, allRej, seen, drained, delays, slept, ret,
                   cancelled>>

\* lines 99-115, one run of op(), and lines 116-123 when it ends the retries
Op(c) ==
    /\ pc[c] = "op"
    /\ LET req == Rebuild(copyBody[c], r[c], body[c])
           content == BodyContent(req, orig[c])
       IN  \E o \in Outcomes(req, attempts[c] + 1), n \in 0..Len(content) :
             LET again == o.kind = "rs" /\ Apply(args[c].f, o.rs)
                 \* c.c.Do(r) honors r.Context(): once it is done, Do returns its error
                 err == OpError(o, again)
                 slot == IF o.kind = "rs" THEN Store(response[c], o.rs, again)
                         ELSE response[c]
             IN  /\ cancelled[c] => o.kind = "err"
                 /\ r' = [r EXCEPT ![c] = Consumed(req, n)]
                 /\ orig' = [orig EXCEPT ![c] = ConsumedStream(req, orig[c], n)]
                 /\ attempts' = [attempts EXCEPT ![c] = @ + 1]
                 /\ seen' = [seen EXCEPT ![c] = Append(@, Sent(req, orig[c]))]
                 /\ drained' = [drained EXCEPT ![c] =
                                  @ \/ (/\ r[c].Body.kind = "buf"
                                        /\ r[c].Body.data # <<>>
                                        /\ r[c].Body.pos = Len(r[c].Body.data))]
                 /\ last' = [last EXCEPT ![c] = o]
                 /\ response' = [response EXCEPT ![c] = slot]
                 /\ retry' = [retry EXCEPT ![c] =
                                IF o.kind = "err" THEN "none"
                                ELSE IF again THEN "retry" ELSE "final"]
                 /\ allRej' = [allRej EXCEPT ![c] = @ /\ again]
                 /\ opErr' = [opErr EXCEPT ![c] = err]
                 /\ IF ~logger
                    THEN /\ pc' = [pc EXCEPT ![c] = "panic"]
                         /\ UNCHANGED ret
                    ELSE IF err = NoError
                    THEN /\ pc' = [pc EXCEPT ![c] = "done"]
                         /\ ret' = [ret EXCEPT ![c] = Finish(err, Load(c, slot))]
                    ELSE /\ pc' = [pc EXCEPT ![c] = "next"]
                         /\ UNCHANGED ret
    /\ UNCHANGED <<logger, args, body, copyBody, b, delays, slept, cancelled>>

\* backoff.Retry after a failed op(): b.NextBackOff(), and on Stop lines 116-118
ConsultBackOff(c) ==
    /\ pc[c] = "next"
    /\ \E x \in RetryNext(b[c], opErr[c]) :
         /\ b' = [b EXCEPT ![c] = x.b]
         /\ delays' = [delays EXCEPT ![c] = Append(@, x.next)]
         /\ IF x.next = Stop
            THEN /\ pc' = [pc EXCEPT ![c] = "done"]
                 /\ ret' = [ret EXCEPT ![c] = Finish(opErr[c], Load(c, response[c]))]
            ELSE /\ pc' = [pc EXCEPT ![c] = "wait"]
                 /\ UNCHANGED ret
    /\ UNCHANGED <<logger, args, r, orig, body, copyBody, response, last, retry,
                   opErr, attempts, allRej, seen, drained, slept, cancelled>>

\* backoff.Retry going on to the next attempt without waiting
WaitSkipped(c) ==
    /\ pc[c] = "wait"
    /\ pc' = [pc EXCEPT ![c] = "op"]
    /\ UNCHANGED <<logger, args, r, orig, body, copyBody, b, response, last, retry,
                   opErr, attempts, allRej, seen, drained, delays, slept, ret,
                   cancelled>>

\* backoff.Retry waiting for the timer of the delay just computed
Wait(c) ==
    /\ pc[c] = "wait"
    /\ slept' = [slept EXCEPT ![c] = Append(@, delays[c][Len(delays[c])])]
    /\ pc' = [pc EXCEPT ![c] = "op"]
    /\ UNCHANGED <<logger, args, r, orig, body, copyBody, b, response, last, retry,
                   opErr, attempts, allRej, seen, drained, delays, ret, cancelled>>

\* the context of the call's request is cancelled, or its deadline passes,
\* while the call runs; nothing in DoWithRetryFunc or in backoff.Retry reads it
Cancel(c) ==
    /\ pc[c] \notin {"done", "panic"}
    /\ ~cancelled[c]
    /\ cancelled' = [cancelled EXCEPT ![c] = TRUE]
    /\ UNCHANGED <<logger, args, pc, r, orig, body, copyBody, b, response, last,
                   retry, opErr, attempts, allRej, seen, drained, delays, slept, ret>>

Next ==
    \/ WithLogger
    \/ \E c \in Calls : BufferBody(c)
    \/ \E c \in Calls : RetryReset(c)
    \/ \E c \in Calls : Op(c)
    \/ \E c \in Calls : ConsultBackOff(c)
    \/ \E c \in Calls : Wait(c)

Spec == Init /\ [][Next]_vars

SpecConc == InitConc /\ [][Next]_vars

\* the calls whose termination is checked: every policy and predicate, a
\* request without a body or with a body of at most one byte
ArgsFair(u) == {x \in Args(u) : Len(x.orig.data) <= 1}

InitFair == InitCalls({1}, ArgsFair(Urls[1]))

\* the goroutine of a call keeps running: the transport returns, timers fire
FairSpec == InitFair /\ [][Next]_vars /\ WF_vars(Next)

NextCtx ==
    \/ Next
    \/ \E c \in Calls : Cancel(c)

\* one call whose request context may be cancelled at any moment
SpecCtx == Init /\ [][NextCtx]_vars

-----------------------------------------------------------------------------
(* Properties *)

\* the call was made with the defaults of Client.Do
IsDo(c) == args[c].b = DefaultBackOff /\ args[c].f = "DefaultRetryFunc"

\* the latest attempt got a response that f classified as final
Accepted(c) == last[c].kind = "rs" /\ retry[c] = "final"

\* backoff.Retry ended because NextBackOff returned Stop
Exhaustion(c) ==
    /\ pc[c] = "done"
    /\ delays[c] # <<>>
    /\ delays[c][Len(delays[c])] = Stop

HasBody(c) == args[c].orig.present

IsPrefix(s, t) == Len(s) <= Len(t) /\ \A i \in 1..Len(s) : s[i] = t[i]

DefaultDelays == <<1, 2, 4, 8, 16, 32, 60, 60, 60, 60, Stop>>

\* C1: with the default policy and the default predicate, when every transport
\* attempt returns a response the predicate rejects, the call makes exactly
\* DefaultMaxRetry + 1 = 11 attempts, never more, and then returns an error
\* and no response.
C1_DoExhaustsAfterElevenAttempts ==
    \A c \in Calls :
        (IsDo(c) /\ attempts[c] >= 1 /\ allRej[c]) =>
            /\ attempts[c] <= DefaultMaxRetry + 1
            /\ pc[c] = "done" =>
                 /\ attempts[c] = DefaultMaxRetry + 1
                 /\ attempts[c] = 11
                 /\ ret[c].err # NoError
                 /\ ret[c].rs = NoResponse

C1_Witness ==
    \E c \in Calls :
        /\ IsDo(c) /\ allRej[c] /\ pc[c] = "done"
        /\ attempts[c] = 11 /\ last[c].rs.StatusCode = 500

\* C2: when the first k attempts fail (transport error or rejected response),
\* k within the policy's budget, and attempt k+1 gets a response the predicate
\* accepts, the call makes exactly k+1 attempts and returns exactly the
\* response of attempt k+1, as the transport returned it, with a nil error.
C2_ReturnsTheAcceptedResponse ==
    \A c \in Calls :
        Accepted(c) =>
            /\ pc[c] \in {"done", "panic"}
            /\ last[c].rs.attempt = attempts[c]
            /\ Len(seen[c]) = attempts[c]
            /\ attempts[c] - 1 <= Budget(args[c].b)
            /\ pc[c] = "done" => ret[c] = [rs |-> last[c].rs, err |-> NoError]

C2_Witness ==
    \E c \in Calls :
        /\ Accepted(c) /\ pc[c] = "done"
        /\ attempts[c] = Budget(args[c].b) + 1
        /\ attempts[c] >= 2
        /\ ret[c].rs.StatusCode = 200 /\ ret[c].rs.attempt = attempts[c]

\* C3: every return of Do, DoWithBackOff and DoWithRetryFunc gives exactly one
\* of the two results: a response with a nil error, or an error with a nil
\* response, never both and never neither.
C3_ExactlyOneResult ==
    \A c \in Calls :
        pc[c] = "done" => ((ret[c].rs = NoResponse) # (ret[c].err = NoError))

C3_Witness ==
    \E c \in Calls :
        /\ pc[c] = "done"
        /\ ret[c].err # NoError /\ ret[c].rs = NoResponse
        /\ response[c] # NoResponse /\ last[c].kind = "err"

\* C4: when the retries end by exhaustion of the backoff policy, the call
\* returns an error and a nil response, both when a rejected response is
\* stored (it is not handed to the caller) and when no attempt got a response.
C4_ExhaustionReturnsOnlyAnError ==
    \A c \in Calls :
        Exhaustion(c) =>
            /\ ret[c].rs = NoResponse
            /\ ret[c].err.kind = "retried"
            /\ ret[c].err.cause = opErr[c].cause

C4_Witness ==
    \E c \in Calls :
        /\ Exhaustion(c)
        /\ response[c] # NoResponse /\ retry[c] = "retry"
        /\ ret[c].rs = NoResponse

\* C5: when the request has a body whose initial read fails with an error
\* other than a clean end of stream, no transport attempt is made, the backoff
\* policy is never touched, and the call returns a permanent error and a nil
\* response.
C5_BodyReadFailureIsPermanent ==
    \A c \in Calls :
        (HasBody(c) /\ args[c].orig.err) =>
            /\ attempts[c] = 0 /\ seen[c] = <<>>
            /\ delays[c] = <<>> /\ slept[c] = <<>>
            /\ b[c] = args[c].b
            /\ pc[c] \in {"start", "done", "panic"}
            /\ pc[c] = "done" =>
                 ret[c] = [rs |-> NoResponse, err |-> Permanent("read")]

C5_Witness ==
    \E c \in Calls :
        /\ HasBody(c) /\ args[c].orig.err /\ pc[c] = "done"
        /\ ret[c].err.kind = "permanent" /\ attempts[c] = 0

\* C6: for a request with a readable body, the original stream is read once,
\* before the first attempt, and every attempt hands the transport a reader
\* holding exactly the original bytes from their start, however much of the
\* body earlier attempts consumed.
C6_EveryAttemptSeesTheOriginalBody ==
    \A c \in Calls :
        (HasBody(c) /\ ~args[c].orig.err) =>
            /\ orig[c].reads <= 1
            /\ attempts[c] >= 1 => orig[c].reads = 1
            /\ pc[c] \notin {"start"} => body[c] = args[c].orig.data
            /\ Len(seen[c]) = attempts[c]
            /\ \A i \in 1..Len(seen[c]) :
                 /\ seen[c][i].hasBody
                 /\ seen[c][i].body = args[c].orig.data

C6_Witness ==
    \E c \in Calls :
        /\ HasBody(c) /\ Len(args[c].orig.data) = MaxBodyLen
        /\ drained[c] /\ attempts[c] >= 3
        /\ seen[c][attempts[c]].body = args[c].orig.data
        /\ pc[c] = "done"

\* C7: for a request without a body nothing is buffered and the request is
\* never changed: every attempt hands the transport the same bodiless request,
\* and the request is as the caller passed it when the call returns.
C7_BodilessRequestIsUntouched ==
    \A c \in Calls :
        ~HasBody(c) =>
            /\ r[c] = args[c].r
            /\ orig[c] = NoStream
            /\ body[c] = <<>> /\ ~copyBody[c]
            /\ \A i \in 1..Len(seen[c]) :
                 seen[c][i] = [method |-> args[c].r.method, url |-> args[c].r.url,
                               hasBody |-> FALSE, body |-> <<>>]

C7_Witness ==
    \E c \in Calls :
        /\ ~HasBody(c) /\ pc[c] = "done" /\ attempts[c] >= 2
        /\ r[c] = args[c].r

\* C8: DefaultRetryFunc answers true exactly for status 0 and for statuses
\* >= 500 other than 501, false for every 1xx-4xx status and for 501, and
\* leaves the response as the transport returned it.
C8_DefaultRetryFuncClassification ==
    \A c \in Calls :
        (args[c].f = "DefaultRetryFunc" /\ last[c].kind = "rs") =>
            LET status == last[c].rs.StatusCode
            IN  /\ retry[c] \in {"retry", "final"}
                /\ (status = 0 \/ status \in (500..999) \ {501}) => retry[c] = "retry"
                /\ (status \in 100..499 \/ status = 501) => retry[c] = "final"
                /\ response[c] = last[c].rs

C8_Witness ==
    \E c \in Calls :
        /\ args[c].f = "DefaultRetryFunc" /\ last[c].kind = "rs"
        /\ last[c].rs.StatusCode = 501 /\ retry[c] = "final"

\* C9: when the predicate classifies an attempt's response as final, the
\* retries stop at once: the policy is not consulted for that attempt, no wait
\* follows, no further attempt is made and the response is returned with a nil
\* error; a 501 on the first attempt of the default predicate is 1 attempt.
C9_FinalResponseStopsTheLoop ==
    \A c \in Calls :
        /\ Accepted(c) =>
             /\ pc[c] \notin {"op", "next", "wait"}
             /\ Len(delays[c]) = attempts[c] - 1
             /\ Len(slept[c]) = attempts[c] - 1
             /\ \A i \in 1..Len(delays[c]) : delays[c][i] # Stop
             /\ pc[c] = "done" => (ret[c].rs = last[c].rs /\ ret[c].err = NoError)
        /\ (/\ args[c].f = "DefaultRetryFunc"
            /\ last[c].kind = "rs"
            /\ last[c].rs = Response(501, 1, args[c].r.url)) =>
             /\ attempts[c] = 1
             /\ delays[c] = <<>> /\ slept[c] = <<>>
             /\ pc[c] \in {"done", "panic"}

C9_Witness ==
    \E c \in Calls :
        /\ args[c].f = "DefaultRetryFunc" /\ pc[c] = "done"
        /\ last[c].rs = Response(501, 1, args[c].r.url) /\ ret[c].rs = Response(501, 1, args[c].r.url)
        /\ attempts[c] = 1 /\ delays[c] = <<>>

\* C10: the policy of DefaultBackOff yields the delays 1, 2, 4, 8, 16, 32, 60,
\* 60, 60, 60 seconds for the first ten failed attempts and Stop on the 11th
\* consultation.
C10_DefaultDelaySequence ==
    \A c \in Calls :
        args[c].b = DefaultBackOff =>
            /\ IsPrefix(delays[c], DefaultDelays)
            /\ IsPrefix(slept[c], DefaultDelays)
            /\ Exhaustion(c) => delays[c] = DefaultDelays

C10_Witness ==
    \E c \in Calls :
        /\ args[c].b = DefaultBackOff
        /\ delays[c] = DefaultDelays
        /\ Len(slept[c]) = DefaultMaxRetry

\* C11: a transport error and a rejected response use the retry budget alike:
\* every failed attempt is followed by exactly one consultation of the policy,
\* which uses one retry, so whatever the mix of failures an always-failing call
\* makes budget + 1 attempts before exhaustion.
C11_FailuresShareTheBudget ==
    \A c \in Calls :
        /\ Len(delays[c]) <= attempts[c]
        /\ attempts[c] <= Budget(args[c].b) + 1
        /\ pc[c] = "next" => Len(delays[c]) = attempts[c] - 1
        /\ pc[c] = "wait" =>
             /\ Len(delays[c]) = attempts[c]
             /\ b[c].numTries = attempts[c]
        /\ Exhaustion(c) =>
             /\ attempts[c] = Budget(args[c].b) + 1
             /\ Len(delays[c]) = attempts[c]
             /\ b[c].numTries = Budget(args[c].b)

C11_Witness ==
    \E c \in Calls :
        /\ Exhaustion(c) /\ Budget(args[c].b) >= 2
        /\ attempts[c] = Budget(args[c].b) + 1
        /\ ~allRej[c] /\ retry[c] = "retry"

\* C12: a Client without a logger (NewWithClient, no WithLogger) runs its calls
\* to a normal return: no call is ever aborted by a log statement.
C12_NoLoggerNeverBreaksACall ==
    \A c \in Calls : pc[c] # "panic"

\* what a call returns, told from its own attempts and its own policy alone
OwnResult(c) ==
    IF Accepted(c) THEN [rs |-> last[c].rs, err |-> NoError]
    ELSE IF attempts[c] = 0
    THEN [rs |-> NoResponse, err |-> Permanent("read")]
    ELSE [rs |-> NoResponse,
          err |-> [kind |-> "retried",
                   cause |-> IF last[c].kind = "err" THEN "transport" ELSE "need retry"]]

\* C13: calls running concurrently on one Client with distinct requests are
\* independent under every interleaving: a call's attempts and results follow
\* from its own transport results and its own policy, the transport is handed
\* the call's own request and body, and a call never stores or returns a
\* response that another call obtained.
C13_ConcurrentCallsAreIndependent ==
    \A c \in Calls :
        /\ response[c] # NoResponse => response[c].url = args[c].r.url
        /\ ret[c].rs # NoResponse => ret[c].rs.url = args[c].r.url
        /\ body[c] \in {<<>>, args[c].orig.data}
        /\ \A i \in 1..Len(seen[c]) :
             /\ seen[c][i].url = args[c].r.url
             /\ seen[c][i].body = args[c].orig.data
        /\ attempts[c] <= Budget(args[c].b) + 1
        /\ Len(delays[c]) <= attempts[c]
        /\ pc[c] = "done" =>
             /\ ret[c] = OwnResult(c)
             /\ Accepted(c) \/ attempts[c] = Budget(args[c].b) + 1

C13_Witness ==
    /\ Calls = {1, 2}
    /\ pc[1] = "done" /\ pc[2] = "done"
    /\ args[1].orig.data # args[2].orig.data
    /\ attempts[1] = 1 /\ ret[1].rs = Response(200, 1, Urls[1])
    /\ attempts[2] = 2 /\ ret[2].rs = NoResponse
    /\ response[2] = Response(503, 2, Urls[2])

\* C14: once the context of the request is done, the call performs no further
\* backoff wait and starts no further transport attempt.
C14_CancellationStopsTheRetries ==
    [][\A c \in Calls :
          (logger /\ cancelled[c]) =>
              (slept'[c] = slept[c] /\ attempts'[c] = attempts[c])]_vars

\* the cause the exhaustion error wraps, told from the last attempt
LastCause(c) == IF last[c].kind = "err" THEN "transport" ELSE "need retry"

\* C15 as stated: a transport error reaches the caller only after exhaustion,
\* and the exhaustion error tells a call in which no attempt ever obtained a
\* response from a call whose responses were rejected, for every sequence of
\* attempt outcomes.
C15_ErrorTellsWhetherAResponseWasObtained ==
    \A c \in Calls :
        /\ (pc[c] = "done" /\ ret[c].err.cause = "transport") => Exhaustion(c)
        /\ Exhaustion(c) =>
             ((ret[c].err.cause = "transport") <=> (response[c] = NoResponse))

\* C15, amended: a transport error reaches the caller only after exhaustion,
\* and the exhaustion error wraps the error of the last attempt alone: it tells
\* a last attempt that failed in the transport from a last attempt whose
\* response was rejected, hence an all-transport-failure call from an
\* all-rejected call, but not the mixed sequences.
C15_ErrorTellsTheLastAttempt ==
    \A c \in Calls :
        /\ (pc[c] = "done" /\ ret[c].err.cause \in {"transport", "need retry"})
             => Exhaustion(c)
        /\ pc[c] \in {"next", "wait", "op"} => ret[c] = NoReturn
        /\ Exhaustion(c) =>
             /\ ret[c].err = [kind |-> "retried", cause |-> LastCause(c)]
             /\ response[c] = NoResponse => ret[c].err.cause = "transport"
             /\ allRej[c] => ret[c].err.cause = "need retry"

C15_Witness ==
    \E c \in Calls :
        /\ Exhaustion(c) /\ attempts[c] = 2
        /\ response[c].StatusCode = 500 /\ response[c].attempt = 1
        /\ ret[c].err.cause = "transport"

\* C16: a call has one response slot; an attempt that obtains a response
\* overwrites it, an attempt whose transport call fails leaves it as it was,
\* nothing else writes it, and the only response ever returned is the one
\* stored last, which is the response of the final attempt.
C16_OneOverwrittenSlot ==
    /\ [](\A c \in Calls :
            /\ last[c].kind = "rs" =>
                 (response[c] = last[c].rs /\ response[c].attempt = attempts[c])
            /\ last[c].kind = "err" =>
                 (response[c] = NoResponse \/ response[c].attempt < attempts[c])
            /\ (pc[c] = "done" /\ ret[c].rs # NoResponse) =>
                 (ret[c].rs = response[c] /\ ret[c].rs.attempt = attempts[c]))
    /\ [][\A c \in Calls :
            /\ (attempts'[c] # attempts[c] /\ last'[c].kind = "err") =>
                 response'[c] = response[c]
            /\ attempts'[c] = attempts[c] => response'[c] = response[c]]_vars

C16_Witness ==
    \E c \in Calls :
        /\ pc[c] = "done" /\ attempts[c] = 3
        /\ last[c].kind = "rs" /\ ret[c].rs = response[c]
        /\ response[c] = Response(404, 3, args[c].r.url)

\* C17: the attempts of a call are sequential and only the backoff wait lies
\* between them: between two consecutive attempts there is exactly one
\* consultation of the policy and one wait of the delay it returned, no wait
\* comes before the first attempt or after the last, and no transport call is
\* under way during a wait.
C17_OneConsultationAndOneWaitBetweenAttempts ==
    \A c \in Calls :
        /\ IsPrefix(slept[c], delays[c])
        /\ \A i \in 1..Len(slept[c]) : slept[c][i] # Stop
        /\ Len(seen[c]) = attempts[c]
        /\ pc[c] \in {"start", "retry"} =>
             (attempts[c] = 0 /\ delays[c] = <<>> /\ slept[c] = <<>>)
        /\ pc[c] = "op" =>
             (Len(delays[c]) = attempts[c] /\ Len(slept[c]) = attempts[c])
        /\ pc[c] = "next" =>
             (Len(delays[c]) = attempts[c] - 1 /\ Len(slept[c]) = attempts[c] - 1)
        /\ pc[c] = "wait" =>
             (Len(delays[c]) = attempts[c] /\ Len(slept[c]) = attempts[c] - 1)
        /\ (pc[c] = "done" /\ attempts[c] >= 1) =>
             /\ Len(slept[c]) = attempts[c] - 1
             /\ Len(delays[c]) \in {attempts[c] - 1, attempts[c]}

C17_Witness ==
    \E c \in Calls :
        /\ pc[c] = "done" /\ attempts[c] = 3
        /\ slept[c] = <<1, 2>> /\ delays[c] = <<1, 2>>

\* C18: when the request has a body, the original stream is closed right after
\* the one initial read, whether the read succeeded or failed: it is closed by
\* the time the call makes its first attempt or returns.
C18_OriginalBodyIsClosed ==
    \A c \in Calls :
        (HasBody(c) /\ (attempts[c] >= 1 \/ pc[c] = "done")) =>
            (orig[c].reads = 1 /\ orig[c].closed)

\* C19: a call ends: it makes at most budget + 1 attempts (Do: at most 11,
\* whatever the transport returns), nothing happens after the policy signalled
\* Stop or an attempt was accepted, and under a fair scheduling of its steps
\* every call ends, by a return when the Client has a logger.
C19_CallsTerminate ==
    /\ [](\A c \in Calls :
            /\ attempts[c] <= Budget(args[c].b) + 1
            /\ IsDo(c) => attempts[c] <= DefaultMaxRetry + 1
            /\ (Exhaustion(c) \/ Accepted(c)) => pc[c] \in {"done", "panic"})
    /\ [][\A c \in Calls :
            pc[c] \in {"done", "panic"} =>
                (pc'[c] = pc[c] /\ attempts'[c] = attempts[c])]_vars
    /\ <>(\A c \in Calls : pc[c] = "done" \/ (~logger /\ pc[c] = "panic"))

C19_Witness ==
    \E c \in Calls :
        /\ IsDo(c) /\ pc[c] = "done" /\ attempts[c] = DefaultMaxRetry + 1
        /\ ~allRej[c] /\ last[c].kind = "err"

\* C20: when the retries end with success a response is stored in the call's
\* slot, so the fallback error "executed request successfully, but failed to
\* get response" is never returned.
C20_FallbackErrorIsUnreachable ==
    \A c \in Calls :
        /\ pc[c] = "done" => ret[c].err.kind # "bug"
        /\ (attempts[c] >= 1 /\ opErr[c] = NoError) =>
             /\ response[c] # NoResponse
             /\ pc[c] = "done" => ret[c] = [rs |-> response[c], err |-> NoError]

C20_Witness ==
    \E c \in Calls :
        /\ pc[c] = "done" /\ attempts[c] = 2 /\ opErr[c] = NoError
        /\ ret[c].rs = Response(200, 2, args[c].r.url)
        /\ ~allRej[c]

=============================================================================
